---- MODULE Spec2Model ----
(***************************************************************************)
(* A model of labs/three_routers_three_hosts/shared/controller.py: the     *)
(* P4Runtime controller that connects to switch s1, arbitrates for         *)
(* mastership, pushes the forwarding pipeline configuration, installs the  *)
(* route / ARP / MAC entries of every line of the routing file, reads the  *)
(* tables back and shuts the connection down.                              *)
(*                                                                         *)
(* A text is a sequence of one-character strings; "NL" stands for the      *)
(* line terminator.  The device and the P4Runtime library are the          *)
(* environment: every call into them chooses its outcome (a return or a    *)
(* raised exception) nondeterministically.                                 *)
(***************************************************************************)
EXTENDS Integers, Sequences, FiniteSets, TLC

VARIABLES
    pc,        \* position of main()
    file,      \* the lines of the routing file (input)
    schema,    \* the table names the p4info file declares (input)
    lineNo,    \* number of lines the for loop has taken from the file
    rec,       \* the locals of the loop body: the fields of the current line
    status,    \* the session's mastership status, as the device last reported it
    rpcs,      \* every RPC handed to the transport, in issue order
    device,    \* the table entries the device holds
    printed,   \* what the process wrote to the console, in order
    exc,       \* the exception that ended the try block ("none" if none)
    released   \* whether the transport of the session has been released

vars == <<pc, file, schema, lineNo, rec, status, rpcs, device, printed, exc, released>>

----------------------------------------------------------------------------
(* Bounds of the model *)

MaxLines == 2

----------------------------------------------------------------------------
(* Texts *)

Digit == {"0", "1", "2", "3", "4", "5", "6", "7", "8", "9"}

DigitVal(c) ==
    CASE c = "0" -> 0 [] c = "1" -> 1 [] c = "2" -> 2 [] c = "3" -> 3
      [] c = "4" -> 4 [] c = "5" -> 5 [] c = "6" -> 6 [] c = "7" -> 7
      [] c = "8" -> 8 [] c = "9" -> 9

\* str.split(sep): the pieces between the separators, always at least one
RECURSIVE Split(_, _)
Split(s, sep) ==
    IF s = <<>> THEN << <<>> >>
    ELSE LET rest == Split(Tail(s), sep)
         IN  IF Head(s) = sep
             THEN << <<>> >> \o rest
             ELSE << <<Head(s)>> \o Head(rest) >> \o Tail(rest)

\* str.strip(ch): leading and trailing occurrences of ch removed
RECURSIVE LStrip(_, _)
LStrip(s, ch) ==
    IF s # <<>> /\ Head(s) = ch THEN LStrip(Tail(s), ch) ELSE s

RECURSIVE RStrip(_, _)
RStrip(s, ch) ==
    IF s # <<>> /\ s[Len(s)] = ch THEN RStrip(SubSeq(s, 1, Len(s) - 1), ch) ELSE s

Strip(s, ch) == RStrip(LStrip(s, ch), ch)

RECURSIVE DigitsValue(_, _)
DigitsValue(s, acc) ==
    IF s = <<>> THEN acc ELSE DigitsValue(Tail(s), 10 * acc + DigitVal(Head(s)))

\* int(s): surrounding whitespace is ignored; anything but a non-empty run of
\* digits raises ValueError
IntOf(s) ==
    LET t == Strip(s, "NL")
    IN  IF t # <<>> /\ \A i \in 1..Len(t) : t[i] \in Digit
        THEN [ok |-> TRUE, val |-> DigitsValue(t, 0)]
        ELSE [ok |-> FALSE, val |-> 0]

----------------------------------------------------------------------------
(* The body of the for loop: parsing one line (lines 73-79) *)

NoRec == [prefix |-> <<>>, prefix_len |-> 0, next_hop_ip |-> <<>>,
          next_hop_mac |-> <<>>, egress_mac |-> <<>>, egress_port |-> 0]

\* The outcome of lines 73-79 on one line: the locals, or the exception raised
ParseLine(line) ==
    LET ip_mac_pair == Split(line, ",")
        first       == Split(ip_mac_pair[1], "/")
    IN  IF Len(first) # 2
        THEN [err |-> "ValueError", rec |-> NoRec]
        ELSE IF Len(ip_mac_pair) < 5
        THEN [err |-> "IndexError", rec |-> NoRec]
        ELSE IF ~IntOf(Strip(ip_mac_pair[5], "NL")).ok
        THEN [err |-> "ValueError", rec |-> NoRec]
        ELSE IF ~IntOf(first[2]).ok
        THEN [err |-> "ValueError", rec |-> NoRec]
        ELSE [err |-> "none",
              rec |-> [prefix       |-> first[1],
                       prefix_len   |-> IntOf(first[2]).val,
                       next_hop_ip  |-> ip_mac_pair[2],
                       next_hop_mac |-> ip_mac_pair[3],
                       egress_mac   |-> ip_mac_pair[4],
                       egress_port  |-> IntOf(Strip(ip_mac_pair[5], "NL")).val]]

----------------------------------------------------------------------------
(* Table entries (lines 86-91, 99-105, 113-118) *)

RouteTable == "MyIngress.ipv4_route"
ArpTable   == "MyIngress.arp_table"
MacTable   == "MyIngress.dmac_forward"

\* The table names main writes to, in the order of the loop body
WriteTables == <<RouteTable, ArpTable, MacTable>>

\* The table names main passes to print_table_entries, in call order
ReadTables == <<"MyIngress.ipv4_route", "MyIngress.arp_table_entry",
                "MyIngress.mac_table_entry">>

\* Values the schema's field widths cannot hold (not a dotted quad, not a MAC)
BadValues == { <<"z">> }

Encodable(v) == v \notin BadValues

\* The descriptor handed to buildTableEntry for the route table: a list value
\* [prefix, prefix_len] is a prefix (LPM) match
RouteEntry(r) ==
    [table  |-> RouteTable,
     match  |-> << [field |-> "hdr.ipv4.dst_ipAddr", kind |-> "lpm",
                    value |-> r.prefix, prefix_len |-> r.prefix_len] >>,
     action |-> "MyIngress.forward_to_next_hop",
     params |-> << [name |-> "next_hop", type |-> "str", value |-> r.next_hop_ip] >>]

\* the neighbor entry keyed by the link-layer address instead of the next hop
ArpEntryKeyedByMac(r) ==
    [table  |-> ArpTable,
     match  |-> << [field |-> "meta.next_hop", kind |-> "exact",
                    value |-> r.next_hop_mac, prefix_len |-> 0] >>,
     action |-> "MyIngress.change_dst_mac",
     params |-> << [name |-> "dst_mac", type |-> "str", value |-> r.next_hop_mac] >>]

ArpEntry(r) ==
    [table  |-> ArpTable,
     match  |-> << [field |-> "meta.next_hop", kind |-> "exact",
                    value |-> r.next_hop_ip, prefix_len |-> 0] >>,
     action |-> "MyIngress.change_dst_mac",
     params |-> << [name |-> "dst_mac", type |-> "str", value |-> r.next_hop_mac] >>]

MacEntry(r) ==
    [table  |-> MacTable,
     match  |-> << [field |-> "hdr.ethernet.dest_macAddr", kind |-> "exact",
                    value |-> r.next_hop_mac, prefix_len |-> 0] >>,
     action |-> "MyIngress.forward_to_port",
     params |-> << [name |-> "egress_port", type |-> "int", value |-> r.egress_port],
                   [name |-> "egress_mac", type |-> "str", value |-> r.egress_mac] >>]

\* buildTableEntry returns the wire entry, or raises when the schema lacks the
\* table or a value does not fit its field
BuildOk(e) ==
    /\ e.table \in schema
    /\ \A i \in 1..Len(e.match) : Encodable(e.match[i].value)
    /\ \A i \in 1..Len(e.params) :
         e.params[i].type = "str" => Encodable(e.params[i].value)

\* The device's key of an entry: its table and match fields
SameKey(e1, e2) == e1.table = e2.table /\ e1.match = e2.match

----------------------------------------------------------------------------
(* Inputs *)

\* decimal text of a number below 100
Digits(n) ==
    LET d(k) == CHOOSE c \in Digit : DigitVal(c) = k
    IN  IF n < 10 THEN << d(n) >> ELSE << d(n \div 10), d(n % 10) >>

Records ==
    { [prefix |-> <<"a">>, prefix_len |-> 8, next_hop_ip |-> <<"b">>,
       next_hop_mac |-> <<"m">>, egress_mac |-> <<"n">>, egress_port |-> 1],
      [prefix |-> <<"c">>, prefix_len |-> 24, next_hop_ip |-> <<"d">>,
       next_hop_mac |-> <<"p">>, egress_mac |-> <<"q">>, egress_port |-> 2],
      [prefix |-> <<"e">>, prefix_len |-> 16, next_hop_ip |-> <<"z">>,
       next_hop_mac |-> <<"z">>, egress_mac |-> <<"r">>, egress_port |-> 3] }

\* The line of the routing file that states record r
Render(r, nl) ==
    r.prefix \o <<"/">> \o Digits(r.prefix_len) \o <<",">> \o r.next_hop_ip
      \o <<",">> \o r.next_hop_mac \o <<",">> \o r.egress_mac \o <<",">>
      \o Digits(r.egress_port) \o (IF nl THEN <<"NL">> ELSE <<>>)

FourFields   == <<"a", "/", "8", ",", "b", ",", "m", ",", "1", "NL">>
BadPrefixLen == <<"a", "/", "x", ",", "b", ",", "m", ",", "n", ",", "1", "NL">>
BadPort      == <<"a", "/", "8", ",", "b", ",", "m", ",", "n", ",", "x", "NL">>

SixFields    == <<"a", "/", "8", ",", "b", ",", "m", ",", "n", ",", "1", ",", "y", "NL">>
BlankLine    == <<"NL">>

MalformedLines == {FourFields, BadPrefixLen, BadPort, SixFields, BlankLine}

Lines ==
    {Render(r, TRUE) : r \in Records} \cup {Render(r, FALSE) : r \in Records}
      \cup MalformedLines

\* Iterating a file yields lines that end with the terminator, but for the last
Files ==
    UNION { { f \in [1..n -> Lines] :
                \A i \in 1..n : i < n => f[i][Len(f[i])] = "NL" } : n \in 0..MaxLines }

SchemaChoices ==
    { {RouteTable, ArpTable, MacTable},
      {RouteTable, ArpTable, MacTable, ReadTables[2], ReadTables[3]},
      {RouteTable, ArpTable} }

----------------------------------------------------------------------------
(* The program *)

Init ==
    /\ pc = "connect"
    /\ file \in Files
    /\ schema \in SchemaChoices
    /\ lineNo = 0
    /\ rec = NoRec
    /\ status = "Unconnected"
    /\ rpcs = <<>>
    /\ device = {}
    /\ printed = <<>>
    /\ exc = "none"
    /\ released = FALSE

\* One RPC as the transport sees it
Rpc(op, table, entry, result) ==
    [op |-> op, table |-> table, entry |-> entry, line |-> lineNo,
     status |-> status, result |-> result]

NoEntry == [table |-> "", match |-> <<>>, action |-> "", params |-> <<>>]

\* grpc.RpcError raised inside the try block: control moves to line 127
RaiseRpcError == pc' = "except_rpc" /\ exc' = "RpcError"

\* an exception no except clause names leaves main: line 130 is not reached
Uncaught(e) == pc' = "crashed" /\ exc' = e

\* lines 26-31
Connect ==
    /\ pc = "connect"
    /\ \E o \in {"OK", "RpcError"} :
         /\ rpcs' = Append(rpcs, Rpc("Connect", "", NoEntry, o))
         /\ IF o = "OK"
            THEN pc' = "arbitrate" /\ status' = "Connected" /\ exc' = exc
            ELSE RaiseRpcError /\ status' = status
    /\ UNCHANGED <<file, schema, lineNo, rec, device, printed, released>>

\* line 65: the arbitration response is not looked at
MasterArbitrationUpdate ==
    /\ pc = "arbitrate"
    /\ \E o \in {"Master", "NotMaster", "RpcError"} :
         /\ rpcs' = Append(rpcs, Rpc("Arbitration", "", NoEntry, o))
         /\ IF o = "RpcError"
            THEN RaiseRpcError /\ status' = status
            ELSE pc' = "setconfig" /\ status' = o /\ exc' = exc
    /\ UNCHANGED <<file, schema, lineNo, rec, device, printed, released>>

\* the config push with its error swallowed: the run goes on to the writes
SetForwardingPipelineConfigSwallowed ==
    /\ pc = "setconfig"
    /\ \E o \in {"OK", "ConfigError"} :
         /\ rpcs' = Append(rpcs, Rpc("SetConfig", "", NoEntry, o))
         /\ pc' = "open"
         /\ printed' = Append(printed, <<"Installed P4 Program">>)
         /\ exc' = exc
    /\ UNCHANGED <<file, schema, lineNo, rec, status, device, released>>

\* lines 66-68
SetForwardingPipelineConfig ==
    /\ pc = "setconfig"
    /\ \E o \in {"OK", "ConfigError"} :
         /\ rpcs' = Append(rpcs, Rpc("SetConfig", "", NoEntry, o))
         /\ IF o = "OK"
            THEN /\ pc' = "open"
                 /\ printed' = Append(printed, <<"Installed P4 Program">>)
                 /\ exc' = exc
            ELSE RaiseRpcError /\ printed' = printed
    /\ UNCHANGED <<file, schema, lineNo, rec, status, device, released>>

\* line 71
OpenFile ==
    /\ pc = "open"
    /\ \E ok \in BOOLEAN :
         IF ok THEN pc' = "loop" /\ exc' = exc ELSE Uncaught("OSError")
    /\ UNCHANGED <<file, schema, lineNo, rec, status, rpcs, device, printed, released>>

\* lines 72-79: the next line of the file, or the end of the loop
NextLine ==
    /\ pc = "loop"
    /\ IF lineNo = Len(file)
       THEN pc' = "read1" /\ UNCHANGED <<lineNo, rec, exc>>
       ELSE LET p == ParseLine(file[lineNo + 1])
            IN  /\ lineNo' = lineNo + 1
                /\ IF p.err = "none"
                   THEN pc' = "route" /\ rec' = p.rec /\ exc' = exc
                   ELSE Uncaught(p.err) /\ rec' = rec
    /\ UNCHANGED <<file, schema, status, rpcs, device, printed, released>>

\* What the device may answer to a write
WriteOutcomes(e) ==
    IF status # "Master" THEN {"NotMaster", "Unavailable"}
    ELSE IF \E d \in device : SameKey(d, e) THEN {"Rejected", "NotMaster", "Unavailable"}
    ELSE {"OK", "Rejected", "NotMaster", "Unavailable"}

\* the stanza with a failed write tried again instead of raised
WriteTableEntryRetried(what, e, next) ==
    /\ printed' = Append(printed, <<what, lineNo>>)
    /\ IF ~BuildOk(e)
       THEN Uncaught("BuildError") /\ UNCHANGED <<rpcs, device, status>>
       ELSE \E o \in WriteOutcomes(e) :
              /\ rpcs' = Append(rpcs, Rpc("Write", e.table, e, o))
              /\ status' = IF o = "NotMaster" /\ status = "Master" THEN "Lost" ELSE status
              /\ exc' = exc
              /\ IF o = "OK"
                 THEN pc' = next /\ device' = device \cup {e}
                 ELSE pc' = pc /\ device' = device
    /\ UNCHANGED <<file, schema, lineNo, rec, released>>

\* print, buildTableEntry, s1.WriteTableEntry: one of the three stanzas of the
\* loop body
WriteTableEntry(what, e, next) ==
    /\ printed' = Append(printed, <<what, lineNo>>)
    /\ IF ~BuildOk(e)
       THEN Uncaught("BuildError") /\ UNCHANGED <<rpcs, device, status>>
       ELSE \E o \in WriteOutcomes(e) :
              /\ rpcs' = Append(rpcs, Rpc("Write", e.table, e, o))
              /\ status' = IF o = "NotMaster" /\ status = "Master" THEN "Lost" ELSE status
              /\ IF o = "OK"
                 THEN pc' = next /\ device' = device \cup {e} /\ exc' = exc
                 ELSE RaiseRpcError /\ device' = device
    /\ UNCHANGED <<file, schema, lineNo, rec, released>>

\* lines 81-92
WriteRoute == pc = "route" /\ WriteTableEntry("Add routing table entry", RouteEntry(rec), "arp")

\* the second stanza writing the forward entry before the neighbor entry
WriteArpAfterMac == pc = "arp" /\ WriteTableEntry("Add MAC table entry", MacEntry(rec), "mac")

\* lines 94-106
WriteArp == pc = "arp" /\ WriteTableEntry("Add ARP table entry", ArpEntry(rec), "mac")

\* the third stanza leaving the loop for the read-back after one record
WriteMacThenDump == pc = "mac" /\ WriteTableEntry("Add MAC table entry", MacEntry(rec), "read1")

\* lines 108-119
WriteMac == pc = "mac" /\ WriteTableEntry("Add MAC table entry", MacEntry(rec), "loop")

\* bytes.hex() of a value as the device holds it
Hex(v) == <<"hex", v>>

\* line 49: match.exact.value, which is empty for a match that is not exact
MatchExactValue(m) == IF m.kind = "exact" THEN m.value ELSE <<>>

\* lines 42-60: the line printed for one entry of the table
DumpLine(e) ==
    [match  |-> [i \in 1..Len(e.match) |->
                   <<e.match[i].field, Hex(MatchExactValue(e.match[i]))>>],
     action |-> e.action,
     params |-> [i \in 1..Len(e.params) |->
                   <<e.params[i].name, Hex(e.params[i].value)>>]]

\* lines 33-61: headers, the table id, one read RPC, one line per entry
print_table_entries(table_name, next) ==
    IF table_name \notin schema
    THEN /\ Uncaught("AttributeError")
         /\ printed' = Append(printed, <<"Table Entries of", table_name>>)
         /\ UNCHANGED <<rpcs, status>>
    ELSE \E o \in {"OK", "NotMaster", "Unavailable"} :
           /\ rpcs' = Append(rpcs, Rpc("Read", table_name, NoEntry, o))
           /\ status' = IF o = "NotMaster" /\ status = "Master" THEN "Lost" ELSE status
           /\ IF o = "OK"
              THEN /\ pc' = next /\ exc' = exc
                   /\ printed' = printed \o << <<"Table Entries of", table_name>>,
                                    <<"entries", table_name,
                                      {DumpLine(d) : d \in {x \in device : x.table = table_name}}>> >>
              ELSE /\ RaiseRpcError
                   /\ printed' = Append(printed, <<"Table Entries of", table_name>>)

\* line 121
PrintRoute ==
    /\ pc = "read1"
    /\ print_table_entries(ReadTables[1], "read2")
    /\ UNCHANGED <<file, schema, lineNo, rec, device, released>>

\* line 122
PrintArp ==
    /\ pc = "read2"
    /\ print_table_entries(ReadTables[2], "read3")
    /\ UNCHANGED <<file, schema, lineNo, rec, device, released>>

\* line 123
PrintMac ==
    /\ pc = "read3"
    /\ print_table_entries(ReadTables[3], "shutdown")
    /\ UNCHANGED <<file, schema, lineNo, rec, device, released>>

TryPcs == {"connect", "arbitrate", "setconfig", "open", "loop", "route", "arp",
           "mac", "read1", "read2", "read3"}

\* the operator's Ctrl-C while the try block runs
Interrupt ==
    /\ pc \in TryPcs
    /\ pc' = "except_kbd"
    /\ exc' = "KeyboardInterrupt"
    /\ UNCHANGED <<file, schema, lineNo, rec, status, rpcs, device, printed, released>>

\* the interrupt handler undoing the writes of the run
HandleKeyboardInterruptRollback ==
    /\ pc = "except_kbd"
    /\ printed' = Append(printed, <<" Shutting down.">>)
    /\ pc' = "shutdown"
    /\ device' = {}
    /\ rpcs' = IF device = {} THEN rpcs ELSE Append(rpcs, Rpc("Delete", "", NoEntry, "OK"))
    /\ UNCHANGED <<file, schema, lineNo, rec, status, exc, released>>

\* lines 125-126
HandleKeyboardInterrupt ==
    /\ pc = "except_kbd"
    /\ printed' = Append(printed, <<" Shutting down.">>)
    /\ pc' = "shutdown"
    /\ UNCHANGED <<file, schema, lineNo, rec, status, rpcs, device, exc, released>>

\* the handler arbitrating again on the same session instead of giving up
HandleRpcErrorRearbitrate ==
    /\ pc = "except_rpc"
    /\ printed' = Append(printed, <<"gRPC Error", rpcs[Len(rpcs)].result>>)
    /\ pc' = "arbitrate"
    /\ UNCHANGED <<file, schema, lineNo, rec, status, rpcs, device, exc, released>>

\* lines 127-128: printGrpcError prints the status code of the RPC that raised
HandleRpcError ==
    /\ pc = "except_rpc"
    /\ printed' = Append(printed, <<"gRPC Error", rpcs[Len(rpcs)].result>>)
    /\ pc' = "shutdown"
    /\ UNCHANGED <<file, schema, lineNo, rec, status, rpcs, device, exc, released>>

\* Shutdown of a session: the transport is released, whatever it was before
Shutdown(r) == TRUE

\* the shutdown skipped when no connection was ever established
ShutdownOnlyIfConnected ==
    /\ pc = "shutdown"
    /\ status # "Unconnected"
    /\ rpcs' = Append(rpcs, Rpc("Shutdown", "", NoEntry, "OK"))
    /\ released' = Shutdown(released)
    /\ pc' = "done"
    /\ UNCHANGED <<file, schema, lineNo, rec, status, device, printed, exc>>

\* line 130
ShutdownAllSwitchConnections ==
    /\ pc = "shutdown"
    /\ rpcs' = Append(rpcs, Rpc("Shutdown", "", NoEntry, "OK"))
    /\ released' = Shutdown(released)
    /\ pc' = "done"
    /\ UNCHANGED <<file, schema, lineNo, rec, status, device, printed, exc>>

Next ==
    \/ Connect
    \/ MasterArbitrationUpdate
    \/ SetForwardingPipelineConfig
    \/ OpenFile
    \/ NextLine
    \/ WriteRoute
    \/ WriteArp
    \/ WriteMac
    \/ PrintRoute
    \/ PrintArp
    \/ PrintMac
    \/ Interrupt
    \/ HandleKeyboardInterrupt
    \/ HandleRpcError
    \/ ShutdownAllSwitchConnections

Spec == Init /\ [][Next]_vars

----------------------------------------------------------------------------
(* Claims *)

Final == {"done", "crashed"}

Range(q) == {q[i] : i \in 1..Len(q)}

IsWrite(r) == r.op = "Write"

Writes == SelectSeq(rpcs, IsWrite)

\* the lines the loop body has finished with
DoneLines == {i \in 1..Len(file) : i < lineNo \/ (i = lineNo /\ pc \in {"loop", "read1", "read2", "read3"})}

\* C1: no table write is sent to the transport while the session's mastership
\* status is not Master.
C1_NoWriteUnlessMaster ==
    \A i \in 1..Len(rpcs) : rpcs[i].op = "Write" => rpcs[i].status = "Master"

\* C2: the write RPCs reach the device in input order of the records and, within
\* a record, route, then neighbor, then forward: the p-th write of a run is the
\* ((p-1) mod 3 + 1)-th entry of record (p-1) div 3 + 1.
C2_WriteOrder ==
    \A p \in 1..Len(Writes) :
        /\ Writes[p].line = ((p - 1) \div 3) + 1
        /\ Writes[p].table = WriteTables[((p - 1) % 3) + 1]

C2_Witness ==
    /\ pc = "done"
    /\ Len(Writes) = 3 * MaxLines
    /\ \A p \in 1..Len(Writes) : Writes[p].result = "OK"

\* C8: no table write or read is issued unless the pipeline-config push was
\* acknowledged earlier in the same run; the config is pushed at most once, so
\* a ConfigError leaves the run with no write and no read, and a run that writes
\* pushed the config exactly once, before its first write.
C8_ConfigBeforeWrites ==
    /\ Cardinality({i \in 1..Len(rpcs) : rpcs[i].op = "SetConfig"}) <= 1
    /\ \A j \in 1..Len(rpcs) :
         rpcs[j].op \in {"Write", "Read"} =>
           \E i \in 1..(j - 1) : rpcs[i].op = "SetConfig" /\ rpcs[i].result = "OK"
    /\ (\E i \in 1..Len(rpcs) : rpcs[i].op = "SetConfig" /\ rpcs[i].result = "ConfigError")
         => \A j \in 1..Len(rpcs) : rpcs[j].op \notin {"Write", "Read"}

C8_Witness ==
    /\ pc = "done"
    /\ \E j \in 1..Len(rpcs) : rpcs[j].op = "Write"
    /\ \E j \in 1..Len(rpcs) : rpcs[j].op = "Read"

\* a line the loop body parses, and whose three entries buildTableEntry accepts
Parses(line) == ParseLine(line).err = "none"

Encodes(line) ==
    LET r == ParseLine(line).rec
    IN  BuildOk(RouteEntry(r)) /\ BuildOk(ArpEntry(r)) /\ BuildOk(MacEntry(r))

\* no RPC of the run failed and the operator did not interrupt it
NoRpcFailure ==
    /\ exc # "KeyboardInterrupt"
    /\ \A i \in 1..Len(rpcs) : rpcs[i].result \in {"OK", "Master"}

OkWritesOf(i) == {p \in 1..Len(Writes) : Writes[p].line = i /\ Writes[p].result = "OK"}

\* none of the line's three entries is accepted by buildTableEntry
FailsToEncode(line) ==
    LET r == ParseLine(line).rec
    IN  ~BuildOk(RouteEntry(r)) /\ ~BuildOk(ArpEntry(r)) /\ ~BuildOk(MacEntry(r))

\* C3: when exactly one record k of N fails to encode (and every other record
\* encodes), the finished run has installed exactly 3(N-1) entries: all three
\* of every record but k, before and after k, and none of k's.
C3_EncodeFailureIsolated ==
    LET N   == Len(file)
        bad == {i \in 1..N : FailsToEncode(file[i])}
    IN  ( /\ pc \in Final
          /\ NoRpcFailure
          /\ exc # "OSError"
          /\ \A i \in 1..N : Parses(file[i])
          /\ \A i \in 1..N : Encodes(file[i]) \/ FailsToEncode(file[i])
          /\ Cardinality(bad) = 1 )
        => /\ Cardinality({p \in 1..Len(Writes) : Writes[p].result = "OK"}) = 3 * (N - 1)
           /\ \A i \in 1..N : Cardinality(OkWritesOf(i)) = IF i \in bad THEN 0 ELSE 3

\* every line of the file parses and encodes, and the schema has the tables
AllLinesGood == \A i \in 1..Len(file) : Parses(file[i]) /\ Encodes(file[i])

\* C4: a write the device rejects does not abort the batch: the finished run
\* has attempted every entry of every record, those after the rejected one too.
C4_RejectedDoesNotAbort ==
    ( /\ pc \in Final
      /\ exc # "KeyboardInterrupt"
      /\ AllLinesGood
      /\ \E p \in 1..Len(Writes) : Writes[p].result = "Rejected" )
    => Len(Writes) = 3 * Len(file)

IsNotMasterReport(x) == x = <<"gRPC Error", "NotMaster">>

\* C5: once a write of the batch returns NotMaster, no further write RPC is
\* issued, and the finished run has recorded that write and every later entry
\* of the batch as failed with NotMaster.
C5_MastershipLossShortCircuit ==
    \A p \in 1..Len(Writes) :
        Writes[p].result = "NotMaster" =>
          /\ p = Len(Writes)
          /\ ( pc \in Final /\ exc # "KeyboardInterrupt" /\ AllLinesGood )
               => Len(SelectSeq(printed, IsNotMasterReport)) = 3 * Len(file) - p + 1

\* a line the routing file format does not allow: not five fields, or a prefix
\* length or a port that is not a number
Malformed(line) ==
    LET f == Split(line, ",")
    IN  \/ Len(f) # 5
        \/ Len(Split(f[1], "/")) # 2
        \/ ~IntOf(Split(f[1], "/")[2]).ok
        \/ ~IntOf(f[5]).ok

\* C6: if any line of the routing file is malformed, no entry derived from any
\* line of that file is written to the device.
C6_MalformedSpecNotPartiallyTrusted ==
    (\E i \in 1..Len(file) : Malformed(file[i])) => Len(Writes) = 0

\* C7: the config-push RPC is issued only while the session status is Master.
C7_ConfigOnlyWhileMaster ==
    \A i \in 1..Len(rpcs) : rpcs[i].op = "SetConfig" => rpcs[i].status = "Master"

\* the table names handed to print_table_entries so far
ReadNames == {printed[i][2] : i \in {j \in 1..Len(printed) : printed[j][1] = "Table Entries of"}}

WrittenNames == {Writes[p].table : p \in 1..Len(Writes)}

\* C9: read-back reads the tables that were written: every name passed to the
\* read-back step is a table the entries are written to, and after a complete
\* run the names read are exactly the names written.
C9_ReadSameTables ==
    /\ ReadNames \subseteq Range(WriteTables)
    /\ (pc = "done" /\ exc = "none" /\ lineNo >= 1) => ReadNames = WrittenNames

\* C10: the entries written for the line that states record r are chained:
\* route matches r's prefix with its length and carries the next-hop address;
\* neighbor matches exactly the next-hop address and carries the next-hop
\* link-layer address; forward matches exactly that link-layer address and
\* carries the egress port and the egress link-layer address.  A line the loop
\* body has finished with has exactly these three writes.
C10_ThreeChainedEntries ==
    /\ \A p \in 1..Len(Writes) : \A r \in Records : \A nl \in BOOLEAN :
         file[Writes[p].line] = Render(r, nl) =>
           LET e == Writes[p].entry
               m == e.match[1]
               v == [i \in 1..Len(e.params) |-> e.params[i].value]
           IN  /\ Len(e.match) = 1
               /\ e.table = RouteTable =>
                    m.kind = "lpm" /\ m.value = r.prefix /\ m.prefix_len = r.prefix_len
                      /\ v = << r.next_hop_ip >>
               /\ e.table = ArpTable =>
                    m.kind = "exact" /\ m.value = r.next_hop_ip /\ v = << r.next_hop_mac >>
               /\ e.table = MacTable =>
                    m.kind = "exact" /\ m.value = r.next_hop_mac
                      /\ v = << r.egress_port, r.egress_mac >>
    /\ \A i \in DoneLines :
         /\ Cardinality({p \in 1..Len(Writes) : Writes[p].line = i}) = 3
         /\ {Writes[p].table : p \in {q \in 1..Len(Writes) : Writes[q].line = i}}
              = {RouteTable, ArpTable, MacTable}

C10_Witness ==
    /\ pc = "loop"
    /\ lineNo = 2
    /\ \E r \in Records : file[2] = Render(r, FALSE) /\ r.prefix_len > 9
    /\ Len(Writes) = 6

\* C11: once a write or a read returns a not-master condition, the session is
\* Lost (or was never Master) and stays so, and no write, read, config-push or
\* arbitration RPC is issued on it afterwards: only Shutdown may follow.
C11_LostIsTerminal ==
    \A i \in 1..Len(rpcs) :
        (rpcs[i].op \in {"Write", "Read"} /\ rpcs[i].result = "NotMaster") =>
          /\ status \in {"Lost", "NotMaster"}
          /\ rpcs[i].status = "Master" => status = "Lost"
          /\ \A j \in (i + 1)..Len(rpcs) : rpcs[j].op = "Shutdown"

C11_Witness ==
    /\ pc = "done"
    /\ status = "Lost"
    /\ Len(rpcs) >= 2
    /\ rpcs[Len(rpcs) - 1].op = "Write"
    /\ rpcs[Len(rpcs) - 1].result = "NotMaster"
    /\ rpcs[Len(rpcs)].op = "Shutdown"
    /\ Len(Writes) = 2

C13_NoWriteRetry ==
    \A p, q \in 1..Len(Writes) :
        (Writes[p].line = Writes[q].line /\ Writes[p].table = Writes[q].table) => p = q

C13_Witness ==
    /\ pc = "done"
    /\ Len(Writes) = 5
    /\ Writes[5].result = "Rejected"
    /\ \A p \in 1..4 : Writes[p].result = "OK"

\* C14: there is no rollback: at every point of a run, also after an operator
\* interrupt or an error ended it, every entry whose write was acknowledged is
\* still installed on the device, and the controller has issued no delete or
\* modify.
C14_NoRollback ==
    /\ \A p \in 1..Len(Writes) : Writes[p].result = "OK" => Writes[p].entry \in device
    /\ \A i \in 1..Len(rpcs) :
         rpcs[i].op \in {"Connect", "Arbitration", "SetConfig", "Write", "Read", "Shutdown"}

C14_Witness ==
    /\ pc = "done"
    /\ exc = "KeyboardInterrupt"
    /\ lineNo = 2
    /\ Cardinality(device) = 4

\* the dump line that states entry e: each match field and each action
\* parameter by name, with the value that was installed
InstalledLine(e) ==
    [match  |-> [i \in 1..Len(e.match) |-> <<e.match[i].field, Hex(e.match[i].value)>>],
     action |-> e.action,
     params |-> [i \in 1..Len(e.params) |-> <<e.params[i].name, Hex(e.params[i].value)>>]]

IsDump(x) == x[1] = "entries"

\* C15: read-back is the inverse of installation: every dump of a table holds,
\* for every entry installed in that table (exact match or prefix match), the
\* line with the installed match values and parameter values; and after a
\* complete read-back every installed entry has been dumped so.
C15_ReadBackInverse ==
    /\ \A i \in 1..Len(printed) :
         IsDump(printed[i]) =>
           \A e \in device : e.table = printed[i][2] => InstalledLine(e) \in printed[i][3]
    /\ (pc \in {"shutdown", "done"} /\ exc = "none") =>
         \A e \in device :
           \E i \in 1..Len(printed) :
             IsDump(printed[i]) /\ printed[i][2] = e.table /\ InstalledLine(e) \in printed[i][3]

FailedWrites == {p \in 1..Len(Writes) : Writes[p].result # "OK"}

\* the console line that reports the totals of the run
IsInstallReport(x) ==
    /\ x[1] = "Install report"
    /\ x[2] = Len(Writes)
    /\ x[3] = Cardinality(FailedWrites)

\* the console line that reports a failed entry with its record and error kind
IsFailureReport(x, p) ==
    x = <<"Failed entry", Writes[p].line, Writes[p].table, Writes[p].result>>

\* C16: at the end of every install run the process has reported the number of
\* entries attempted and the number that failed and, for each failed entry, the
\* offending record and the error kind.
C16_RunIsReported ==
    (pc = "done" /\ lineNo >= 1) =>
      /\ \E i \in 1..Len(printed) : IsInstallReport(printed[i])
      /\ \A p \in FailedWrites : \E i \in 1..Len(printed) : IsFailureReport(printed[i], p)

\* C17: every run ends with the shutdown of the switch connections as its last
\* step, whatever stopped it among a connect failure, an arbitration or
\* config-push error, a failed write, a malformed routing line, a read-back
\* error or an operator interrupt.
C17_ShutdownIsLastStep ==
    (pc \in Final /\ exc \notin {"OSError", "BuildError"}) =>
      /\ pc = "done"
      /\ released
      /\ rpcs # <<>>
      /\ rpcs[Len(rpcs)].op = "Shutdown"

IsRead(r) == r.op = "Read"

Reads == SelectSeq(rpcs, IsRead)

\* before RPC j, all three writes of every line of the file were acknowledged
AllWritesAckedBefore(j) ==
    \A i \in 1..Len(file) : \A t \in Range(WriteTables) :
        \E k \in 1..(j - 1) :
            /\ rpcs[k].op = "Write"
            /\ rpcs[k].line = i
            /\ rpcs[k].table = t
            /\ rpcs[k].result = "OK"

\* a read RPC is issued only after every write of every record was
\* acknowledged, no write follows a read, and a run with a failed write has no
\* read
ReadOnlyAfterInstall ==
    /\ \A j \in 1..Len(rpcs) :
         rpcs[j].op = "Read" =>
           /\ AllWritesAckedBefore(j)
           /\ \A k \in (j + 1)..Len(rpcs) : rpcs[k].op # "Write"
    /\ FailedWrites # {} => Len(Reads) = 0

\* C18 as stated: read-back happens only after a complete installation, and a
\* run in which a write failed or that was interrupted issues no read RPC.
C18_ReadOnlyAfterInstall ==
    /\ ReadOnlyAfterInstall
    /\ exc = "KeyboardInterrupt" => Len(Reads) = 0

\* C18 as amended: read-back happens only after a complete installation, and a
\* run in which a write failed, or that was interrupted before every write was
\* acknowledged, issues no read RPC.
C18_ReadOnlyAfterInstallAmended ==
    /\ ReadOnlyAfterInstall
    /\ ( /\ exc = "KeyboardInterrupt"
         /\ Cardinality({p \in 1..Len(Writes) : Writes[p].result = "OK"}) < 3 * Len(file) )
         => Len(Reads) = 0

C18_Witness ==
    /\ Len(Reads) >= 1
    /\ Len(file) = MaxLines
    /\ exc = "KeyboardInterrupt"

====
